---- MODULE Spec2Model ----
(***************************************************************************)
(* Keyword clustering: the Streamlit rule matcher (src/app.py) and the     *)
(* command line tool (src/jaccard-score-cli.py) with its two modes, the    *)
(* hard-coded rule matcher and the greedy Jaccard clusterer.               *)
(*                                                                         *)
(* Keywords, category names and patterns are strings; lower-casing,        *)
(* tokenizing, regular-expression search and string ordering are computed  *)
(* character by character.                                                 *)
(***************************************************************************)
EXTENDS Integers, Sequences, FiniteSets, TLC

(***************************************************************************)
(* Bounds of the model.                                                    *)
(***************************************************************************)
\* longest keyword list that is uploaded or read from the input file
MaxKeywords == 3

(***************************************************************************)
(* Strings.                                                                *)
(***************************************************************************)
Char(s, i) == SubSeq(s, i, i)

\* the printable ASCII characters the names are written in, in code point order
Ascii ==
  " !#$%&()*+,-./0123456789:;<=>?@ABCDEFGHIJKLMNOPQRSTUVWXYZ[]^_abcdefghijklmnopqrstuvwxyz{|}~"

UpperCase == "ABCDEFGHIJKLMNOPQRSTUVWXYZ"

LowerCase == "abcdefghijklmnopqrstuvwxyz"

\* the rank of a character in code point order (the order ord(c) gives)
CodePoint(c) == CHOOSE i \in 1..Len(Ascii) : Char(Ascii, i) = c

\* str.lower() of one character
LowerChar(c) ==
  IF \E i \in 1..Len(UpperCase) : Char(UpperCase, i) = c
  THEN Char(LowerCase, CHOOSE i \in 1..Len(UpperCase) : Char(UpperCase, i) = c)
  ELSE c

RECURSIVE Lower(_)
\* str.lower()
Lower(s) ==
  IF s = "" THEN "" ELSE LowerChar(Char(s, 1)) \o Lower(SubSeq(s, 2, Len(s)))

IsSpace(c) == c = " "

RECURSIVE LStrip(_)
LStrip(s) ==
  IF s # "" /\ IsSpace(Char(s, 1)) THEN LStrip(SubSeq(s, 2, Len(s))) ELSE s

RECURSIVE RStrip(_)
RStrip(s) ==
  IF s # "" /\ IsSpace(Char(s, Len(s))) THEN RStrip(SubSeq(s, 1, Len(s) - 1)) ELSE s

\* str.strip()
Strip(s) == RStrip(LStrip(s))

\* p occurs in s at position i
OccursAt(s, p, i) == i >= 1 /\ i + Len(p) - 1 <= Len(s) /\ SubSeq(s, i, i + Len(p) - 1) = p

\* the first position >= from at which p occurs in s, 0 when there is none
IndexOf(s, p, from) ==
  IF \E i \in from..Len(s) : OccursAt(s, p, i)
  THEN CHOOSE i \in from..Len(s) :
         OccursAt(s, p, i) /\ \A j \in from..(i - 1) : ~OccursAt(s, p, j)
  ELSE 0

RECURSIVE Split(_, _)
\* str.split(sep), sep not empty
Split(s, sep) ==
  LET i == IndexOf(s, sep, 1)
  IN IF i = 0 THEN <<s>>
     ELSE <<SubSeq(s, 1, i - 1)>> \o Split(SubSeq(s, i + Len(sep), Len(s)), sep)

RECURSIVE StrLess(_, _)
\* a < b for Python strings: code point order, a proper prefix first
StrLess(a, b) ==
  IF b = "" THEN FALSE
  ELSE IF a = "" THEN TRUE
  ELSE IF Char(a, 1) = Char(b, 1) THEN StrLess(SubSeq(a, 2, Len(a)), SubSeq(b, 2, Len(b)))
  ELSE CodePoint(Char(a, 1)) < CodePoint(Char(b, 1))

(***************************************************************************)
(* re.search(pattern, string, re.IGNORECASE), for the patterns of the      *)
(* shape  lit(.*lit)*  with an optional closing  (?!.*lit|.*lit...)  that  *)
(* the tool's category table is written in, and for a pattern with an      *)
(* unbalanced parenthesis, which re refuses to compile.                    *)
(***************************************************************************)
HasChar(s, c) == \E i \in 1..Len(s) : Char(s, i) = c

\* the part of the pattern before its lookahead
RegexBody(pattern) ==
  LET i == IndexOf(pattern, "(?!", 1)
  IN IF i = 0 THEN pattern ELSE SubSeq(pattern, 1, i - 1)

\* the inside of the lookahead, "" when the pattern has none
RegexLookahead(pattern) ==
  LET i == IndexOf(pattern, "(?!", 1)
  IN IF i = 0 THEN "" ELSE SubSeq(pattern, i + 3, Len(pattern) - 1)

\* re.compile accepts the pattern (re.error otherwise)
RegexValid(pattern) ==
  LET i == IndexOf(pattern, "(?!", 1)
  IN /\ ~HasChar(RegexBody(pattern), "(") /\ ~HasChar(RegexBody(pattern), ")")
     /\ ~HasChar(RegexLookahead(pattern), "(") /\ ~HasChar(RegexLookahead(pattern), ")")
     /\ i # 0 => Char(pattern, Len(pattern)) = ")" /\ Len(pattern) >= i + 3

\* the literals of the body, in order: lit1 .* lit2 .* ...
RegexLits(pattern) == Split(RegexBody(pattern), ".*")

\* the literals the lookahead forbids after the match: (?!.*n1|.*n2|...)
RegexNeg(pattern) ==
  IF RegexLookahead(pattern) = "" THEN <<>>
  ELSE LET alts == Split(RegexLookahead(pattern), "|")
       IN [k \in 1..Len(alts) |-> SubSeq(alts[k], 3, Len(alts[k]))]

\* (?!.*n1|...) succeeds at position from: no forbidden literal occurs from there on
LookaheadOk(neg, text, from) ==
  \A k \in 1..Len(neg) : \A i \in from..Len(text) : ~OccursAt(text, neg[k], i)

RECURSIVE MatchFrom(_, _, _, _, _)
\* lits[n..] can be matched in text from position from on, each literal at any
\* position after the one before it (.* between them), with the lookahead
\* succeeding where the last literal ends
MatchFrom(lits, neg, text, n, from) ==
  \E i \in from..(Len(text) + 1) :
    /\ OccursAt(text, lits[n], i) \/ (lits[n] = "" /\ i <= Len(text) + 1)
    /\ IF n = Len(lits) THEN LookaheadOk(neg, text, i + Len(lits[n]))
       ELSE MatchFrom(lits, neg, text, n + 1, i + Len(lits[n]))

\* re.search(pattern, string, re.IGNORECASE): "match", "none", or "error" for re.error
re_search(pattern, string) ==
  IF ~RegexValid(pattern) THEN "error"
  ELSE IF MatchFrom(RegexLits(Lower(pattern)), RegexNeg(Lower(pattern)), Lower(string), 1, 1)
       THEN "match" ELSE "none"

(***************************************************************************)
(* Inputs.                                                                 *)
(***************************************************************************)
\* the keywords a keyword column is drawn from
KeywordPool ==
  { "red car", "Red-Car", "red bus", "big red bus",
    "leather belt", "oktoberfest dirndl women", "oktoberfest shirt men" }

RECURSIVE SeqsUpTo(_, _)
\* the sequences over S of length at most n
SeqsUpTo(S, n) ==
  IF n = 0 THEN {<<>>}
  ELSE LET shorter == SeqsUpTo(S, n - 1)
       IN shorter \cup {Append(q, e) : q \in {r \in shorter : Len(r) = n - 1}, e \in S}

KeywordLists == SeqsUpTo(KeywordPool, MaxKeywords)

\* --similarity_threshold, in tenths: 0.0, 0.3, 0.6 (the default) and 1.0
Thresholds == {0, 3, 6, 10}

Range(f) == {f[i] : i \in DOMAIN f}

\* the number of positions of list q that hold e
Count(q, e) == Cardinality({i \in 1..Len(q) : q[i] = e})

(***************************************************************************)
(* jaccard-score-cli.py: the category table of semantic_cluster_keywords.  *)
(***************************************************************************)
cli_categories ==
  << [name |-> "Men Lederhosen & Outfits", patterns |-> <<
        "lederhosen.*men(?!.*shirt|.*shoe|.*sock)",
        "mens.*lederhosen(?!.*shirt|.*shoe|.*sock)",
        "male.*lederhosen(?!.*shirt|.*shoe|.*sock)",
        "lederhosen.*male(?!.*shirt|.*shoe|.*sock)",
        "traditional.*lederhosen(?!.*women|.*female|.*shirt|.*shoe)",
        "german.*lederhosen(?!.*women|.*female|.*shirt|.*shoe)",
        "german.*lederhosen.*outfit",
        "german.*lederhosen.*male",
        "lederhosen.*outfit",
        "oktoberfest.*herren",
        "outfit.*herren",
        "traditional.*german.*lederhosen",
        "long.*lederhosen.*pants",
        "plus.*size.*lederhosen" >>],
     [name |-> "Women Outfits & Clothing", patterns |-> <<
        "women.*outfit",
        "female.*outfit",
        "womens.*outfit",
        "womens.*clothing",
        "women.*clothing",
        "traditional.*german.*female",
        "german.*female.*outfit",
        "german.*female",
        "traditional.*german.*outfit(?!.*men|.*male)",
        "oktoberfest.*women",
        "oktoberfest.*clothing.*women",
        "oktoberfest.*dresses" >>],
     [name |-> "Oktoberfest General", patterns |-> <<
        "oktoberfest.*costume",
        "oktoberfest(?!.*dirndl|.*women|.*men|.*shoe|.*shirt|.*sock)",
        "german.*outfit(?!.*female|.*women)" >>],
     [name |-> "Women Dirndl & Dresses", patterns |-> <<
        "dirndl",
        "women.*dirndl",
        "german.*dirndl",
        "oktoberfest.*dirndl",
        "dirndl.*size" >>],
     [name |-> "Accessories", patterns |-> <<
        "suspender",
        "belt",
        "bundhosen",
        "bavarian.*trachten" >>],
     [name |-> "Men Shoes & Socks", patterns |-> <<
        "lederhosen.*shoe",
        "shoes.*lederhosen",
        "mens.*shoe",
        "oktoberfest.*shoe",
        "mens.*oktoberfest.*shoe",
        "lederhosen.*sock",
        "socks.*lederhosen",
        "oktoberfest.*sock",
        "mens.*oktoberfest.*sock" >>],
     [name |-> "Men Shirts", patterns |-> <<
        "lederhosen.*shirt",
        "shirt.*lederhosen",
        "mens.*shirt",
        "mens.*oktoberfest.*shirt",
        "oktoberfest.*shirt",
        "lederhosen.*shirts",
        "shirt.*men" >>] >>

\* re.search over the keywords and the table's patterns, computed once
cli_match ==
  [c \in 1..Len(cli_categories) |->
    [kw \in KeywordPool |->
      [p \in 1..Len(cli_categories[c].patterns) |->
        re_search(cli_categories[c].patterns[p], Lower(kw))]]]

\* a defaultdict(list) after d[key] is read: a missing key is created empty
Touch(d, key) == IF key \in DOMAIN d THEN d ELSE d @@ (key :> <<>>)

\* the keys of a dict with integer keys, sorted
RECURSIVE SortedKeys(_)
SortedKeys(K) ==
  IF K = {} THEN <<>>
  ELSE LET m == CHOOSE a \in K : \A b \in K : a <= b
       IN <<m>> \o SortedKeys(K \ {m})

(***************************************************************************)
(* semantic_cluster_keywords. Its state st is [clusters, category_names,   *)
(* assigned, cluster_id].                                                  *)
(***************************************************************************)
\* the inner loop over the patterns: some pattern of category c is found in the keyword
SemanticPatternMatches(c, keyword) ==
  \E p \in 1..Len(cli_categories[c].patterns) : cli_match[c][keyword][p] = "match"

\* the body of the keyword loop for one keyword, an assigned one skipped
SemanticKeyword(st, c, keyword) ==
  IF keyword \in st.assigned THEN st
  ELSE IF SemanticPatternMatches(c, keyword)
       THEN [st EXCEPT
               !.clusters = [Touch(st.clusters, st.cluster_id) EXCEPT
                               ![st.cluster_id] = Append(@, keyword)],
               !.category_names = (st.cluster_id :> cli_categories[c].name) @@ @,
               !.assigned = @ \cup {keyword}]
       ELSE st

RECURSIVE SemanticKeywordLoop(_, _, _, _)
\* for keyword in keywords, from position k on
SemanticKeywordLoop(st, c, kws, k) ==
  IF k > Len(kws) THEN st
  ELSE SemanticKeywordLoop(SemanticKeyword(st, c, kws[k]), c, kws, k + 1)

\* one pass of the category loop: the keyword loop, then the id moves on if the
\* category got a keyword (reading clusters[cluster_id] creates it)
SemanticCategoryPass(st, c, kws) ==
  LET after == SemanticKeywordLoop(st, c, kws, 1)
      read  == [after EXCEPT !.clusters = Touch(after.clusters, after.cluster_id)]
  IN IF read.clusters[read.cluster_id] # <<>>
     THEN [read EXCEPT !.cluster_id = @ + 1]
     ELSE read

\* the unassigned keywords become the basket Other
SemanticOtherBasket(st, kws) ==
  LET other_keywords == SelectSeq(kws, LAMBDA kw : kw \notin st.assigned)
  IN IF other_keywords # <<>>
     THEN [st EXCEPT
             !.clusters = (st.cluster_id :> other_keywords) @@ @,
             !.category_names = (st.cluster_id :> "Other") @@ @]
     ELSE st

\* [clusters[i] for i in sorted(clusters.keys())]
SemanticResult(st) ==
  LET keys == SortedKeys(DOMAIN st.clusters)
  IN [i \in 1..Len(keys) |-> st.clusters[keys[i]]]

(***************************************************************************)
(* similarity_cluster_keywords.                                            *)
(***************************************************************************)
IsSeparator(c) == c \in {"-", " ", "_"}

RECURSIVE ReSplitFrom(_, _, _, _)
\* re.split(r'[-\s_]+', s) from position i, cur the piece read so far
ReSplitFrom(s, i, cur, inRun) ==
  IF i > Len(s) THEN <<cur>>
  ELSE IF IsSeparator(Char(s, i))
       THEN IF inRun THEN ReSplitFrom(s, i + 1, cur, TRUE)
            ELSE <<cur>> \o ReSplitFrom(s, i + 1, "", TRUE)
       ELSE ReSplitFrom(s, i + 1, cur \o Char(s, i), FALSE)

\* the token set of a keyword
Tokenize(keyword) ==
  LET tokens == ReSplitFrom(Strip(Lower(keyword)), 1, "", FALSE)
  IN Range(SelectSeq(tokens, LAMBDA t : t # ""))

\* the token sets of the pool's keywords, computed once
PoolTokens == [kw \in KeywordPool |-> Tokenize(kw)]

\* the dict keyword_tokens: its keys in insertion order, one per distinct keyword
RECURSIVE TokenizeAll(_, _)
TokenizeAll(kws, k) ==
  IF k > Len(kws) THEN <<>>
  ELSE LET rest == TokenizeAll(kws, k + 1)
       IN IF \E j \in 1..(k - 1) : kws[j] = kws[k] THEN rest
          ELSE <<[keyword |-> kws[k], tokens |-> PoolTokens[kws[k]]]>> \o rest

\* the similarity as the fraction <<numerator, denominator>>
jaccard_similarity(tokens1, tokens2) ==
  LET intersection == Cardinality(tokens1 \cap tokens2)
      union == Cardinality(tokens1) + Cardinality(tokens2) - intersection
  IN IF union > 0 THEN <<intersection, union>> ELSE <<0, 1>>

\* (variant) the comparison the wrong way round
AtMostThreshold(sim, threshold) == sim[1] * 10 <= threshold * sim[2]

\* jaccard_similarity(...) >= similarity_threshold, the threshold in tenths
AtLeastThreshold(sim, threshold) == sim[1] * 10 >= threshold * sim[2]

\* any(jaccard_similarity(tokens, keyword_tokens[other_keyword]) >= threshold
\*     for other_keyword in cluster)
ClusterQualifies(cluster, tokens, threshold) ==
  \E m \in 1..Len(cluster) :
    AtLeastThreshold(jaccard_similarity(tokens, PoolTokens[cluster[m]]), threshold)

\* (variant) the loop over the clusters without its break: the keyword is
\* appended to every cluster that qualifies
FirstFitNoBreak(cls, c, keyword, tokens, threshold) ==
  LET appended == [i \in 1..Len(cls) |->
                     IF i >= c /\ ClusterQualifies(cls[i], tokens, threshold)
                     THEN Append(cls[i], keyword) ELSE cls[i]]
  IN IF appended = cls THEN Append(cls, <<keyword>>) ELSE appended

RECURSIVE FirstFit(_, _, _, _, _)
\* for cluster in clusters, from position c on: append to the first that
\* qualifies and break; a new cluster when the loop ends without one
FirstFit(cls, c, keyword, tokens, threshold) ==
  IF c > Len(cls) THEN Append(cls, <<keyword>>)
  ELSE IF ClusterQualifies(cls[c], tokens, threshold)
       THEN [cls EXCEPT ![c] = Append(@, keyword)]
       ELSE FirstFit(cls, c + 1, keyword, tokens, threshold)

\* one pass of the loop over keyword_tokens.items()
SimilarityPlace(cls, entry, threshold) ==
  FirstFit(cls, 1, entry.keyword, entry.tokens, threshold)

RECURSIVE SimilarityLoop(_, _, _, _)
SimilarityLoop(cls, entries, k, threshold) ==
  IF k > Len(entries) THEN cls
  ELSE SimilarityLoop(SimilarityPlace(cls, entries[k], threshold), entries, k + 1, threshold)

\* the cluster list similarity_cluster_keywords returns
similarity_cluster_keywords(kws, threshold) ==
  SimilarityLoop(<<>>, TokenizeAll(kws, 1), 1, threshold)

\* str(i) for 0 <= i <= 9
Digit(i) == Char("0123456789", i + 1)

RECURSIVE IntToStr(_)
IntToStr(i) == IF i < 10 THEN Digit(i) ELSE IntToStr(i \div 10) \o Digit(i % 10)

\* {i: f'Cluster {i}' for i in range(len(clusters))}
SimilarityNames(cls) == [i \in 0..(Len(cls) - 1) |-> "Cluster " \o IntToStr(i)]

\* category_names.get(cluster_id, f'Cluster {cluster_id}')
BasketName(names, id) == IF id \in DOMAIN names THEN names[id] ELSE "Cluster " \o IntToStr(id)

RECURSIVE ClusteredRows(_, _, _)
\* the rows (cluster_id, basket name, keyword) of the output file, from cluster c on
ClusteredRows(cls, names, c) ==
  IF c > Len(cls) THEN <<>>
  ELSE [k \in 1..Len(cls[c]) |-> <<c - 1, BasketName(names, c - 1), cls[c][k]>>]
       \o ClusteredRows(cls, names, c + 1)

\* the readable file: one section per cluster
ReadableSections(cls, names) ==
  [c \in 1..Len(cls) |-> [id |-> c - 1, name |-> BasketName(names, c - 1), keywords |-> cls[c]]]

(***************************************************************************)
(* app.py: the uploaded files and the widgets.                              *)
(***************************************************************************)
\* the keywords an uploaded keyword column is drawn from
AppKeywordPool ==
  {"Red-Car", "leather belt", "oktoberfest dirndl women", "oktoberfest shirt men"}

AppKeywordLists == SeqsUpTo(AppKeywordPool, MaxKeywords)

\* the category files that are uploaded: JSON objects, CSV tables with the
\* columns Category and Pattern or with the column Category alone, and a JSON
\* file that json.load refuses
CategoryFiles ==
  { [name |-> "shop.json", parses |-> TRUE, columns |-> 0, content |->
       << [name |-> "Men Shirts", patterns |-> <<"shirt">>],
          [name |-> "Accessories", patterns |-> <<"belt">>],
          [name |-> "Women Dirndl", patterns |-> <<"Dirndl", "women">>] >>],
    [name |-> "oktoberfest.JSON", parses |-> TRUE, columns |-> 0, content |->
       << [name |-> "Oktoberfest General", patterns |-> <<"oktoberfest(?!.*shirt)">>],
          [name |-> "Men Shirts", patterns |-> <<"shirt">>],
          [name |-> "Bags", patterns |-> <<"bag">>] >>],
    [name |-> "typos.json", parses |-> TRUE, columns |-> 0, content |->
       << [name |-> "Accessories", patterns |-> <<"(", "belt">>],
          [name |-> "Women Dirndl", patterns |-> <<"dirndl", "women(">>],
          [name |-> "Oktoberfest General", patterns |-> <<"oktoberfest">>] >>],
    [name |-> "rules.csv", parses |-> TRUE, columns |-> 2, content |->
       << <<"Men Shirts", "shirt">>, <<" Women ", "women">>, <<"Men Shirts", " men ">> >>],
    [name |-> "names.csv", parses |-> TRUE, columns |-> 1, content |->
       << <<"Men Shirts">>, <<"Accessories ">>, <<"Men Shirts">> >>],
    [name |-> "partial.json", parses |-> TRUE, columns |-> 0, content |->
       << [name |-> "Accessories", patterns |-> <<"belt">>],
          [name |-> "Women Dirndl", patterns |-> <<>>] >>],
    [name |-> "broken.json", parses |-> FALSE, columns |-> 0, content |-> <<>>] }

\* the categories that can come to have an input field
WidgetCategories == {"Men Shirts", "Accessories", "Women Dirndl"}

\* what the user types into a pattern field
PatternTexts == {"", "belt"}

\* the largest value the user gives the number input (the widget allows 10)
MaxPatternInputs == 2

(***************************************************************************)
(* app.py: dicts that keep insertion order, as lists of entries.           *)
(***************************************************************************)
Names(d) == [i \in 1..Len(d) |-> d[i].name]

HasName(d, name) == \E i \in 1..Len(d) : d[i].name = name

IndexOfName(d, name) == CHOOSE i \in 1..Len(d) : d[i].name = name

\* categories[category].append(pattern), categories a defaultdict(list)
AppendPattern(d, category, pattern) ==
  IF HasName(d, category)
  THEN [d EXCEPT ![IndexOfName(d, category)].patterns = Append(@, pattern)]
  ELSE Append(d, [name |-> category, patterns |-> <<pattern>>])

\* categories[category] = patterns
SetPatterns(d, category, patterns) ==
  IF HasName(d, category)
  THEN [d EXCEPT ![IndexOfName(d, category)].patterns = patterns]
  ELSE Append(d, [name |-> category, patterns |-> patterns])

\* clusters[name].append(keyword), clusters a defaultdict(list)
AppendKeyword(d, name, keyword) ==
  IF HasName(d, name)
  THEN [d EXCEPT ![IndexOfName(d, name)].keywords = Append(@, keyword)]
  ELSE Append(d, [name |-> name, keywords |-> <<keyword>>])

RECURSIVE load_categories_from_csv_rows(_, _, _, _)
\* the loop over df.iterrows(), from row r on
load_categories_from_csv_rows(columns, rows, r, categories) ==
  IF r > Len(rows) THEN categories
  ELSE load_categories_from_csv_rows(columns, rows, r + 1,
         IF columns >= 2
         THEN AppendPattern(categories, Strip(rows[r][1]), Strip(rows[r][2]))
         ELSE SetPatterns(categories, Strip(rows[r][1]), <<>>))

load_categories_from_csv(csv_file) ==
  load_categories_from_csv_rows(csv_file.columns, csv_file.content, 1, <<>>)

\* file.name.split('.')[-1].lower()
FileExt(name) == LET parts == Split(name, ".") IN Lower(parts[Len(parts)])

\* load_categories: <<the dict>>, or <<>> for None (an error is shown)
load_categories(file) ==
  IF ~file.parses THEN <<>>
  ELSE IF FileExt(file.name) = "json" THEN <<file.content>>
  ELSE IF FileExt(file.name) = "csv" THEN <<load_categories_from_csv(file)>>
  ELSE <<>>

\* load_categories over the category files, computed once
loaded_categories == [file \in CategoryFiles |-> load_categories(file)]

\* the patterns of the category files and of the pattern fields
AppPatterns ==
  (UNION {UNION {Range(c.patterns) : c \in Range(loaded_categories[file][1])} :
            file \in {f \in CategoryFiles : loaded_categories[f] # <<>>}})
  \cup (PatternTexts \ {""})

\* re.search(pattern, keyword.lower(), re.IGNORECASE) over the patterns and the
\* keywords, computed once
app_match ==
  [pattern \in AppPatterns |-> [kw \in AppKeywordPool |-> re_search(pattern, Lower(kw))]]

\* the names a basket can have
BasketNames ==
  (UNION {Range(Names(loaded_categories[file][1])) :
            file \in {f \in CategoryFiles : loaded_categories[f] # <<>>}})
  \cup {"Other"}

\* the order of the basket names, computed once
name_less == [a \in BasketNames |-> [b \in BasketNames |-> StrLess(a, b)]]

(***************************************************************************)
(* app.py: cluster_keywords. Its state acc is [clusters, assigned,         *)
(* warnings, raised]; in the loops, found says a pattern was found.        *)
(***************************************************************************)
\* (variant) re.error is not caught in the loop
OnReErrorRaise(acc, category_name, pattern) == [acc EXCEPT !.raised = TRUE]

\* except re.error: st.warning(...); continue
OnReError(acc, category_name, pattern) ==
  [acc EXCEPT !.warnings = Append(@, [category |-> category_name, pattern |-> pattern])]

\* if re.search(...): clusters[category_name].append(keyword); assigned.add(keyword);
\* assigned_to_category = True
OnMatch(acc, category_name, keyword) ==
  [acc EXCEPT !.clusters = AppendKeyword(@, category_name, keyword),
              !.assigned = @ \cup {keyword},
              !.found = TRUE]

RECURSIVE PatternLoop(_, _, _, _)
\* for pattern in patterns, from position p on
PatternLoop(acc, category, p, keyword) ==
  IF p > Len(category.patterns) \/ acc.raised THEN acc
  ELSE LET res == app_match[category.patterns[p]][keyword]
       IN IF res = "match" THEN OnMatch(acc, category.name, keyword)
          ELSE IF res = "error"
               THEN PatternLoop(OnReError(acc, category.name, category.patterns[p]),
                                category, p + 1, keyword)
               ELSE PatternLoop(acc, category, p + 1, keyword)

RECURSIVE CategoryLoopNoBreak(_, _, _, _)
\* (variant) the category loop without "if assigned_to_category: break"
CategoryLoopNoBreak(acc, categories, c, keyword) ==
  IF c > Len(categories) \/ acc.raised THEN acc
  ELSE CategoryLoopNoBreak(PatternLoop(acc, categories[c], 1, keyword),
                           categories, c + 1, keyword)

RECURSIVE CategoryLoop(_, _, _, _)
\* for category_name, patterns in categories.items(), from position c on;
\* the loop is left once the keyword is assigned
CategoryLoop(acc, categories, c, keyword) ==
  IF c > Len(categories) \/ acc.raised THEN acc
  ELSE LET after == PatternLoop(acc, categories[c], 1, keyword)
       IN IF after.found THEN after
          ELSE CategoryLoop(after, categories, c + 1, keyword)

\* if keyword not in assigned: clusters['Other'].append(keyword)
OtherIfUnassigned(acc, keyword) ==
  IF keyword \notin acc.assigned /\ ~acc.raised
  THEN [acc EXCEPT !.clusters = AppendKeyword(@, "Other", keyword)]
  ELSE acc

\* (variant) the loop skips a keyword whose string is already in assigned, as the
\* command line tool's loop does
AssignKeywordSkipAssigned(acc, categories, keyword) ==
  IF keyword \in acc.assigned THEN acc
  ELSE OtherIfUnassigned(
         CategoryLoop([acc EXCEPT !.found = FALSE], categories, 1, keyword), keyword)

\* the body of the loop over the keywords
AssignKeyword(acc, categories, keyword) ==
  OtherIfUnassigned(
    CategoryLoop([acc EXCEPT !.found = FALSE], categories, 1, keyword),
    keyword)

RECURSIVE KeywordLoop(_, _, _, _)
KeywordLoop(acc, categories, kws, k) ==
  IF k > Len(kws) \/ acc.raised THEN acc
  ELSE KeywordLoop(AssignKeyword(acc, categories, kws[k]), categories, kws, k + 1)

\* (variant) clusters starts with an empty basket for every declared category
cluster_keywords_eager(kws, categories) ==
  KeywordLoop([clusters |-> [c \in 1..Len(categories) |->
                               [name |-> categories[c].name, keywords |-> <<>>]],
               assigned |-> {}, warnings |-> <<>>, raised |-> FALSE, found |-> FALSE],
              categories, kws, 1)

cluster_keywords(kws, categories) ==
  KeywordLoop([clusters |-> <<>>, assigned |-> {}, warnings |-> <<>>,
               raised |-> FALSE, found |-> FALSE],
              categories, kws, 1)

(***************************************************************************)
(* app.py: the results.                                                    *)
(***************************************************************************)
RECURSIVE InsertSorted(_, _)
InsertSorted(sorted, item) ==
  IF sorted = <<>> THEN <<item>>
  ELSE IF name_less[item.name][sorted[1].name] THEN <<item>> \o sorted
  ELSE <<sorted[1]>> \o InsertSorted(Tail(sorted), item)

RECURSIVE SortedItems(_)
\* sorted(clusters.items()): by basket name
SortedItems(d) ==
  IF d = <<>> THEN <<>>
  ELSE InsertSorted(SortedItems(SubSeq(d, 1, Len(d) - 1)), d[Len(d)])

\* (variant) the baskets in the order of clusters.items(), not sorted
BasketOrderUnsorted(d) == d

\* the order in which the results list the baskets
BasketOrder(d) == SortedItems(d)

\* the rows of the summary table: a basket's name and its number of keywords
SummaryRow(item) == [name |-> item.name, count |-> Len(item.keywords)]

summary_data(clusters_) ==
  LET items == BasketOrder(clusters_)
  IN [i \in 1..Len(items) |-> SummaryRow(items[i])]

RECURSIVE CsvRows(_, _)
\* the rows of the CSV download, from basket b on
CsvRows(items, b) ==
  IF b > Len(items) THEN <<>>
  ELSE [k \in 1..Len(items[b].keywords) |->
          [basket |-> b - 1, name |-> items[b].name, keyword |-> items[b].keywords[k]]]
       \o CsvRows(items, b + 1)

csv_data(clusters_) == CsvRows(BasketOrder(clusters_), 1)

\* the baskets of the text and JSON downloads: Basket <id>, name, keywords
json_data(clusters_) ==
  LET items == BasketOrder(clusters_)
  IN [b \in 1..Len(items) |->
        [basket |-> b - 1, name |-> items[b].name, keywords |-> items[b].keywords]]

(***************************************************************************)
(* app.py: one run of the script.                                          *)
(***************************************************************************)
\* [cat for cat, patterns in categories.items() if not patterns]
EmptyCategories(categories) ==
  Names(SelectSeq(categories, LAMBDA c : c.patterns = <<>>))

\* (variant) the check is made after the pattern fields are read
BlockingCategoriesAfterFill(loaded, filled) ==
  Names(SelectSeq(filled, LAMBDA c : c.patterns = <<>>))

\* the categories whose emptiness stops the run before clustering
BlockingCategories(loaded, filled) == EmptyCategories(loaded)

\* the non-empty texts of the first n pattern fields of a category
PatternsList(texts, category, n) ==
  SelectSeq([i \in 1..n |-> texts[category][i - 1]], LAMBDA t : t # "")

RECURSIVE FillPatterns(_, _, _, _, _)
\* the loop over empty_categories: categories[category] = patterns_list if it is not empty
FillPatterns(categories, empties, e, nums, texts) ==
  IF e > Len(empties) THEN categories
  ELSE LET patterns_list == PatternsList(texts, empties[e], nums[empties[e]])
       IN FillPatterns(
            IF patterns_list # <<>> THEN SetPatterns(categories, empties[e], patterns_list)
            ELSE categories,
            empties, e + 1, nums, texts)

NoRun ==
  [outcome |-> "off", keywords |-> <<>>, loaded |-> <<>>, categories |-> <<>>,
   empty_categories |-> <<>>, cluster_calls |-> 0, clusters |-> <<>>, warnings |-> <<>>,
   summary_data |-> <<>>, csv_data |-> <<>>, json_data |-> <<>>]

\* the run called cluster_keywords and went on to show its result res (an
\* exception that leaves cluster_keywords is caught at the end of the script)
ShowResults(base, filled, res) ==
  IF res.raised
  THEN [base EXCEPT !.outcome = "error", !.categories = filled,
                    !.cluster_calls = 1, !.warnings = res.warnings]
  ELSE [base EXCEPT !.outcome = "clustered",
                    !.categories = filled,
                    !.cluster_calls = 1,
                    !.clusters = res.clusters,
                    !.warnings = res.warnings,
                    !.summary_data = summary_data(res.clusters),
                    !.csv_data = csv_data(res.clusters),
                    !.json_data = json_data(res.clusters)]

\* the script from the check for categories without patterns on
CheckAndCluster(base, loaded, filled, empties, button) ==
  IF BlockingCategories(loaded, filled) # <<>>
  THEN [base EXCEPT !.outcome = IF button THEN "rerun" ELSE "needs_patterns",
                    !.categories = filled,
                    !.empty_categories = empties]
  ELSE ShowResults(base, filled, cluster_keywords(base.keywords, filled))

\* the script once the categories are loaded
WithCategories(kws, loaded, empties, nums, texts, button) ==
  CheckAndCluster([NoRun EXCEPT !.keywords = kws, !.loaded = loaded],
                  loaded, FillPatterns(loaded, empties, 1, nums, texts), empties, button)

\* the script once both files are uploaded
WithFiles(kws, got, nums, texts, button) ==
  IF got = <<>> THEN [NoRun EXCEPT !.outcome = "load_failed", !.keywords = kws]
  ELSE WithCategories(kws, got[1], EmptyCategories(got[1]), nums, texts, button)

\* the script from top to bottom; button says the run follows a click on
\* "Update Categories and Cluster"
ScriptRun(kwfile, catfile, nums, texts, button) ==
  IF kwfile = <<>> \/ catfile = <<>> THEN [NoRun EXCEPT !.outcome = "no_files"]
  ELSE WithFiles(kwfile[1], loaded_categories[catfile[1]], nums, texts, button)

\* the widgets a run shows keep their values; the values of the others are dropped
KeptNums(nums, result) ==
  [c \in WidgetCategories |-> IF c \in Range(result.empty_categories) THEN nums[c] ELSE 1]

KeptTexts(texts, nums, result) ==
  [c \in WidgetCategories |-> [i \in 0..(MaxPatternInputs - 1) |->
     IF c \in Range(result.empty_categories) /\ i < nums[c] THEN texts[c][i] ELSE ""]]

(***************************************************************************)
(* State.                                                                  *)
(***************************************************************************)
VARIABLES
  cli_pc,               \* where the tool is in cluster_keywords ("off": the app runs)
  keywords,             \* the keyword column
  mode,                 \* --mode
  similarity_threshold, \* --similarity_threshold, in tenths
  sem,                  \* semantic_cluster_keywords' clusters, category_names, assigned, cluster_id
  cat_idx,              \* the category the category loop is at
  keyword_tokens,       \* similarity_cluster_keywords' dict, in insertion order
  key_idx,              \* the entry the clustering loop is at
  clusters,             \* the cluster list (being built, then returned)
  category_names,       \* the names returned with it
  clustered_keywords,   \* the rows of the output file
  readable,             \* the sections of the readable file
  app_pc,               \* "idle": the script has run and waits for the user;
                        \* "rerun": st.rerun() was called ("off": the tool runs)
  keywords_file,        \* the uploaded keywords, <<>> for none
  categories_file,      \* the uploaded category file, <<>> for none
  num_patterns,         \* the number inputs, by category
  pattern_input,        \* the pattern fields, by category and index
  run                   \* what the last run of the script computed and showed

cli_vars ==
  << cli_pc, keywords, mode, similarity_threshold, sem, cat_idx, keyword_tokens, key_idx,
     clusters, category_names, clustered_keywords, readable >>

app_vars == << app_pc, keywords_file, categories_file, num_patterns, pattern_input, run >>

vars == << cli_vars, app_vars >>

SemInit == [clusters |-> <<>>, category_names |-> <<>>, assigned |-> {}, cluster_id |-> 0]

NoNums == [c \in WidgetCategories |-> 1]

NoTexts == [c \in WidgetCategories |-> [i \in 0..(MaxPatternInputs - 1) |-> ""]]

\* the command line tool is started on an input file
InitCli ==
  /\ cli_pc = "start"
  /\ keywords \in KeywordLists
  /\ mode \in {"semantic", "similarity"}
  /\ similarity_threshold \in Thresholds
  /\ mode = "semantic" => similarity_threshold = 6
  /\ app_pc = "off"
  /\ run = NoRun

\* the app is opened: the script has run once, with no file uploaded
InitApp ==
  /\ cli_pc = "off"
  /\ keywords = <<>>
  /\ mode = "semantic"
  /\ similarity_threshold = 6
  /\ app_pc = "idle"
  /\ run = ScriptRun(<<>>, <<>>, NoNums, NoTexts, FALSE)

Init ==
  /\ InitCli \/ InitApp
  /\ sem = SemInit
  /\ cat_idx = 1
  /\ keyword_tokens = <<>>
  /\ key_idx = 1
  /\ clusters = <<>>
  /\ category_names = <<>>
  /\ clustered_keywords = <<>>
  /\ readable = <<>>
  /\ keywords_file = <<>>
  /\ categories_file = <<>>
  /\ num_patterns = NoNums
  /\ pattern_input = NoTexts

(***************************************************************************)
(* The command line tool.                                                  *)
(***************************************************************************)
\* cluster_keywords: the keywords are read and the mode's function is entered;
\* data[keyword_col].iloc[0] raises IndexError on a column without rows
CliStart ==
  /\ cli_pc = "start"
  /\ cli_pc' = IF keywords = <<>> THEN "error"
               ELSE IF mode = "semantic" THEN "semantic" ELSE "tokenize"
  /\ UNCHANGED << keywords, mode, similarity_threshold, sem, cat_idx, keyword_tokens,
                  key_idx, clusters, category_names, clustered_keywords, readable >>
  /\ UNCHANGED app_vars

\* semantic_cluster_keywords: one pass of the loop over the categories
SemanticCategory ==
  /\ cli_pc = "semantic"
  /\ cat_idx <= Len(cli_categories)
  /\ sem' = SemanticCategoryPass(sem, cat_idx, keywords)
  /\ cat_idx' = cat_idx + 1
  /\ UNCHANGED << cli_pc, keywords, mode, similarity_threshold, keyword_tokens, key_idx,
                  clusters, category_names, clustered_keywords, readable >>
  /\ UNCHANGED app_vars

\* semantic_cluster_keywords: the basket Other, and the return
SemanticReturn ==
  /\ cli_pc = "semantic"
  /\ cat_idx > Len(cli_categories)
  /\ LET st == SemanticOtherBasket(sem, keywords)
     IN /\ sem' = st
        /\ clusters' = SemanticResult(st)
        /\ category_names' = st.category_names
  /\ cli_pc' = "write"
  /\ UNCHANGED << keywords, mode, similarity_threshold, cat_idx, keyword_tokens, key_idx,
                  clustered_keywords, readable >>
  /\ UNCHANGED app_vars

\* similarity_cluster_keywords: the keywords are tokenized
SimilarityTokenize ==
  /\ cli_pc = "tokenize"
  /\ keyword_tokens' = TokenizeAll(keywords, 1)
  /\ cli_pc' = "cluster"
  /\ UNCHANGED << keywords, mode, similarity_threshold, sem, cat_idx, key_idx, clusters,
                  category_names, clustered_keywords, readable >>
  /\ UNCHANGED app_vars

\* similarity_cluster_keywords: one pass of the clustering loop
SimilarityStep ==
  /\ cli_pc = "cluster"
  /\ key_idx <= Len(keyword_tokens)
  /\ clusters' = SimilarityPlace(clusters, keyword_tokens[key_idx], similarity_threshold)
  /\ key_idx' = key_idx + 1
  /\ UNCHANGED << cli_pc, keywords, mode, similarity_threshold, sem, cat_idx, keyword_tokens,
                  category_names, clustered_keywords, readable >>
  /\ UNCHANGED app_vars

\* similarity_cluster_keywords: the clusters are named, and the return
SimilarityReturn ==
  /\ cli_pc = "cluster"
  /\ key_idx > Len(keyword_tokens)
  /\ category_names' = SimilarityNames(clusters)
  /\ cli_pc' = "write"
  /\ UNCHANGED << keywords, mode, similarity_threshold, sem, cat_idx, keyword_tokens, key_idx,
                  clusters, clustered_keywords, readable >>
  /\ UNCHANGED app_vars

\* cluster_keywords: the two output files are written
CliWrite ==
  /\ cli_pc = "write"
  /\ clustered_keywords' = ClusteredRows(clusters, category_names, 1)
  /\ readable' = ReadableSections(clusters, category_names)
  /\ cli_pc' = "done"
  /\ UNCHANGED << keywords, mode, similarity_threshold, sem, cat_idx, keyword_tokens, key_idx,
                  clusters, category_names >>
  /\ UNCHANGED app_vars

(***************************************************************************)
(* The app: every interaction with a widget runs the script again.         *)
(***************************************************************************)
\* a run of the script has ended with result
EndOfRun(result, kwfile, catfile, nums, texts) ==
  /\ run' = result
  /\ keywords_file' = kwfile
  /\ categories_file' = catfile
  /\ num_patterns' = KeptNums(nums, result)
  /\ pattern_input' = KeptTexts(texts, nums, result)
  /\ app_pc' = IF result.outcome = "rerun" THEN "rerun" ELSE "idle"
  /\ UNCHANGED cli_vars

\* the script runs on the given files and widget values
Rerun(kwfile, catfile, nums, texts, button) ==
  EndOfRun(ScriptRun(kwfile, catfile, nums, texts, button), kwfile, catfile, nums, texts)

\* the user uploads the keywords CSV
UploadKeywords ==
  /\ app_pc = "idle"
  /\ keywords_file = <<>>
  /\ \E kws \in AppKeywordLists :
       Rerun(<<kws>>, categories_file, num_patterns, pattern_input, FALSE)

\* the user uploads the category file
UploadCategories ==
  /\ app_pc = "idle"
  /\ categories_file = <<>>
  /\ \E file \in CategoryFiles :
       Rerun(keywords_file, <<file>>, num_patterns, pattern_input, FALSE)

\* the user changes "How many patterns for ..." of a category shown without patterns
SetNumPatterns ==
  /\ app_pc = "idle"
  /\ \E category \in Range(run.empty_categories), n \in 1..MaxPatternInputs :
       /\ n # num_patterns[category]
       /\ Rerun(keywords_file, categories_file,
                [num_patterns EXCEPT ![category] = n], pattern_input, FALSE)

\* the user types into a pattern field of a category shown without patterns
EnterPattern ==
  /\ app_pc = "idle"
  /\ \E category \in Range(run.empty_categories), text \in PatternTexts :
       \E i \in 0..(num_patterns[category] - 1) :
         /\ text # pattern_input[category][i]
         /\ Rerun(keywords_file, categories_file, num_patterns,
                  [pattern_input EXCEPT ![category][i] = text], FALSE)

\* the user presses "Update Categories and Cluster": the script runs with the
\* button set and calls st.rerun()
PressButton ==
  /\ app_pc = "idle"
  /\ run.empty_categories # <<>>
  /\ Rerun(keywords_file, categories_file, num_patterns, pattern_input, TRUE)

\* the run st.rerun() asked for: the button is no longer set
RerunAfterButton ==
  /\ app_pc = "rerun"
  /\ Rerun(keywords_file, categories_file, num_patterns, pattern_input, FALSE)

Next ==
  \/ CliStart
  \/ SemanticCategory
  \/ SemanticReturn
  \/ SimilarityTokenize
  \/ SimilarityStep
  \/ SimilarityReturn
  \/ CliWrite
  \/ UploadKeywords
  \/ UploadCategories
  \/ SetNumPatterns
  \/ EnterPattern
  \/ PressButton
  \/ RerunAfterButton

Spec == Init /\ [][Next]_vars

\* Streamlit runs the script again when st.rerun() is called
FairSpec == Spec /\ WF_vars(RerunAfterButton)

(***************************************************************************)
(* Properties of the rule matchers.                                        *)
(***************************************************************************)
\* the number of places keyword kw has in the baskets of an app result
Placed(d, kw) ==
  Cardinality({pos \in UNION {{<<b, k>> : k \in 1..Len(d[b].keywords)} : b \in 1..Len(d)} :
                 d[pos[1]].keywords[pos[2]] = kw})

\* the number of keywords in the baskets of an app result
BasketTotal(d) ==
  Cardinality(UNION {{<<b, k>> : k \in 1..Len(d[b].keywords)} : b \in 1..Len(d)})

\* the categories, by position, with a rule that is found in the keyword
AppMatching(categories, kw) ==
  {c \in 1..Len(categories) :
     \E p \in 1..Len(categories[c].patterns) : app_match[categories[c].patterns[p]][kw] = "match"}

CliMatching(kw) ==
  {c \in 1..Len(cli_categories) :
     \E p \in 1..Len(cli_categories[c].patterns) : cli_match[c][kw][p] = "match"}

Min(S) == CHOOSE a \in S : \A b \in S : a <= b

\* C1: cluster_keywords of app.py partitions the keyword list: the baskets hold
\* every keyword string as often as the input list does and nothing else, and
\* every basket is a declared category or Other.
C1_Partition ==
  run.cluster_calls = 1 =>
    /\ run.outcome = "clustered"
    /\ \A kw \in AppKeywordPool : Placed(run.clusters, kw) = Count(run.keywords, kw)
    /\ BasketTotal(run.clusters) = Len(run.keywords)
    /\ \A b \in 1..Len(run.clusters) :
         run.clusters[b].name \in Range(Names(run.categories)) \cup {"Other"}

\* a run that clustered a list with a repeated keyword and with an unmatched keyword
C1_Witness ==
  /\ run.outcome = "clustered"
  /\ \E kw \in AppKeywordPool : Count(run.keywords, kw) >= 2 /\ AppMatching(run.categories, kw) # {}
  /\ \E kw \in Range(run.keywords) : AppMatching(run.categories, kw) = {}
  /\ Len(run.clusters) >= 2

\* C2: the command line tool keeps every occurrence of a keyword: the clusters it
\* writes hold as many keywords as the input list, in both modes.
C2_NoDeduplication ==
  cli_pc = "done" => Len(clustered_keywords) = Len(keywords)

\* C3: a keyword with matching rules in several categories is in the basket of
\* the first declared of them, and in no other basket, in the app and in the
\* command line tool.
C3_Priority ==
  /\ run.outcome = "clustered" =>
       \A kw \in Range(run.keywords) :
         LET matching == AppMatching(run.categories, kw)
         IN matching # {} =>
              \A b \in 1..Len(run.clusters) :
                kw \in Range(run.clusters[b].keywords)
                  <=> run.clusters[b].name = run.categories[Min(matching)].name
  /\ (cli_pc = "done" /\ mode = "semantic") =>
       \A kw \in Range(keywords) :
         LET matching == CliMatching(kw)
         IN matching # {} =>
              /\ \E c \in 1..Len(clusters) : kw \in Range(clusters[c])
              /\ \A c \in 1..Len(clusters) :
                   kw \in Range(clusters[c]) =>
                     /\ (c - 1) \in DOMAIN category_names
                     /\ category_names[c - 1] = cli_categories[Min(matching)].name

\* the tool has assigned a keyword that two categories match, after a keyword of
\* a later category
C3_Witness ==
  /\ cli_pc = "done" /\ mode = "semantic"
  /\ \E i, j \in 1..Len(keywords) :
       /\ i < j
       /\ Cardinality(CliMatching(keywords[j])) >= 2
       /\ CliMatching(keywords[i]) # {}
       /\ Min(CliMatching(keywords[i])) > Min(CliMatching(keywords[j]))

\* the app has assigned a keyword that two categories match
C3_WitnessApp ==
  /\ run.outcome = "clustered"
  /\ \E kw \in Range(run.keywords) : Cardinality(AppMatching(run.categories, kw)) >= 2

\* the rules of a category that re refuses to compile
InvalidRules(category) ==
  {p \in 1..Len(category.patterns) : ~RegexValid(category.patterns[p])}

\* the categories with the invalid rules taken out
RECURSIVE WithoutInvalidRules(_)
WithoutInvalidRules(categories) ==
  IF categories = <<>> THEN <<>>
  ELSE << [name |-> categories[1].name,
           patterns |-> SelectSeq(categories[1].patterns, RegexValid)] >>
       \o WithoutInvalidRules(Tail(categories))

\* the keyword gets as far as rule p of category c: no category before c
\* matches it and no rule of c before p does
Reaches(categories, kw, c, p) ==
  /\ \A c2 \in AppMatching(categories, kw) : c2 >= c
  /\ \A p2 \in 1..(p - 1) : app_match[categories[c].patterns[p2]][kw] # "match"

\* C4: an invalid regular expression among the rules raises no error out of
\* cluster_keywords of app.py: the run shows its results, the baskets are those
\* of the same categories without the invalid rules, and a warning names each
\* invalid rule that a keyword got as far as, and nothing else.
C4_MalformedRuleIsolation ==
  run.cluster_calls = 1 =>
    /\ run.outcome = "clustered"
    /\ run.clusters = cluster_keywords(run.keywords, WithoutInvalidRules(run.categories)).clusters
    /\ Range(run.warnings) =
         { [category |-> run.categories[c].name, pattern |-> run.categories[c].patterns[p]] :
             <<c, p>> \in { cp \in UNION {{<<c, p>> : p \in InvalidRules(run.categories[c])} :
                                           c \in 1..Len(run.categories)} :
                            \E kw \in Range(run.keywords) :
                              Reaches(run.categories, kw, cp[1], cp[2]) } }

\* a category with an invalid rule before a valid one has received a keyword
\* that the valid rule matches, and the invalid rule was warned about
C4_Witness ==
  /\ run.outcome = "clustered"
  /\ \E c \in 1..Len(run.categories) :
       /\ 1 \in InvalidRules(run.categories[c])
       /\ \E b \in 1..Len(run.clusters) :
            /\ run.clusters[b].name = run.categories[c].name
            /\ \E kw \in Range(run.clusters[b].keywords) :
                 app_match[run.categories[c].patterns[2]][kw] = "match"
       /\ [category |-> run.categories[c].name, pattern |-> run.categories[c].patterns[1]]
            \in Range(run.warnings)
  /\ \E b \in 1..Len(run.clusters) : run.clusters[b].name = "Other"

(***************************************************************************)
(* Properties of the similarity clusterer.                                 *)
(***************************************************************************)
\* |A \cap B| / |A \cup B| >= t / 10, the quotient 0 when both sets are empty
JaccardAtLeast(A, B, t) ==
  IF A \cup B = {} THEN t <= 0
  ELSE Cardinality(A \cap B) * 10 >= t * Cardinality(A \cup B)

\* the clusters with a member whose token set is that close to the keyword's
Qualifying(cls, kw, t) ==
  {c \in 1..Len(cls) :
     \E m \in 1..Len(cls[c]) : JaccardAtLeast(PoolTokens[kw], PoolTokens[cls[c][m]], t)}

\* C5: for the same keyword list, a threshold at least as high gives at least
\* as many clusters.
C5_ThresholdMonotone ==
  (mode = "similarity" /\ cli_pc \in {"write", "done"}) =>
    \A t2 \in Thresholds :
      t2 >= similarity_threshold =>
        Len(similarity_cluster_keywords(keywords, t2)) >= Len(clusters)

\* a run at 0.6 that gives fewer clusters than the same list gives at 1.0
C5_Witness ==
  /\ mode = "similarity" /\ cli_pc = "done"
  /\ similarity_threshold = 6
  /\ Len(keyword_tokens) >= 3
  /\ Len(clusters) >= 2
  /\ Len(similarity_cluster_keywords(keywords, 10)) > Len(clusters)

\* C9: a pass of the clustering loop appends the keyword to the first cluster,
\* in creation order, that has a member whose similarity with it reaches the
\* threshold, and to no other; with no such cluster it appends a new cluster
\* of the keyword alone; the other clusters stay as they are.
C9_GreedyFirstFit ==
  [][(cli_pc = "cluster" /\ key_idx' = key_idx + 1) =>
       LET kw == keyword_tokens[key_idx].keyword
           qualifying == Qualifying(clusters, kw, similarity_threshold)
       IN IF qualifying = {}
          THEN clusters' = Append(clusters, <<kw>>)
          ELSE clusters' = [clusters EXCEPT ![Min(qualifying)] = Append(@, kw)]]_vars

\* the keyword just placed went to the first of two clusters that qualified,
\* and the similarity with the second is the higher one
C9_Witness ==
  /\ cli_pc = "cluster" /\ key_idx > 1
  /\ similarity_threshold = 3
  /\ Len(clusters) >= 2
  /\ LET kw == keyword_tokens[key_idx - 1].keyword
     IN /\ clusters[1][Len(clusters[1])] = kw
        /\ kw \notin Range(clusters[2])
        /\ \A n \in 1..(Len(clusters[1]) - 1) :
             ~JaccardAtLeast(PoolTokens[kw], PoolTokens[clusters[1][n]], 6)
        /\ \E m \in 1..Len(clusters[2]) :
             JaccardAtLeast(PoolTokens[kw], PoolTokens[clusters[2][m]], 6)

(***************************************************************************)
(* Properties of the results.                                              *)
(***************************************************************************)
\* the place of a basket name in the declaration order, Other after all
DeclPos(names, name) ==
  IF \E i \in 1..Len(names) : names[i] = name
  THEN CHOOSE i \in 1..Len(names) : names[i] = name
  ELSE Len(names) + 1

\* the command line tool's cluster list is in declaration order, Other last
CliDeclarationOrder ==
  (cli_pc = "done" /\ mode = "semantic") =>
    \A i, j \in DOMAIN category_names :
      i < j => DeclPos(Names(cli_categories), category_names[i])
                 < DeclPos(Names(cli_categories), category_names[j])

\* C6 as claimed: the baskets of the app's summary and exports and the tool's
\* cluster list are in declaration order, Other last.
C6_DeclarationOrder ==
  /\ run.outcome = "clustered" =>
       /\ \A i, j \in 1..Len(run.summary_data) :
            i < j => DeclPos(Names(run.categories), run.summary_data[i].name)
                       < DeclPos(Names(run.categories), run.summary_data[j].name)
       /\ \A i, j \in 1..Len(run.csv_data) :
            run.csv_data[i].basket < run.csv_data[j].basket
              => DeclPos(Names(run.categories), run.csv_data[i].name)
                   < DeclPos(Names(run.categories), run.csv_data[j].name)
       /\ \A i, j \in 1..Len(run.json_data) :
            i < j => DeclPos(Names(run.categories), run.json_data[i].name)
                       < DeclPos(Names(run.categories), run.json_data[j].name)
  /\ CliDeclarationOrder

\* C6, amended: the app lists the baskets by ascending name, Other among them
\* by its name, in the summary and with the basket ids of the exports; the
\* tool's cluster list is in declaration order, Other last.
C6_BasketOrder ==
  /\ run.outcome = "clustered" =>
       /\ Len(run.summary_data) = Len(run.clusters)
       /\ \A i, j \in 1..Len(run.summary_data) :
            i < j => StrLess(run.summary_data[i].name, run.summary_data[j].name)
       /\ \A r \in 1..Len(run.csv_data) :
            run.summary_data[run.csv_data[r].basket + 1].name = run.csv_data[r].name
       /\ Len(run.json_data) = Len(run.summary_data)
       /\ \A b \in 1..Len(run.json_data) :
            /\ run.json_data[b].basket = b - 1
            /\ run.json_data[b].name = run.summary_data[b].name
  /\ CliDeclarationOrder

\* a summary in which Other is not last and a category declared later comes first
C6_Witness ==
  /\ run.outcome = "clustered"
  /\ Len(run.summary_data) >= 3
  /\ run.summary_data[Len(run.summary_data)].name # "Other"
  /\ \E i \in 1..Len(run.summary_data) : run.summary_data[i].name = "Other"
  /\ \E i, j \in 1..Len(run.summary_data) :
       /\ i < j
       /\ DeclPos(Names(run.categories), run.summary_data[i].name)
            > DeclPos(Names(run.categories), run.summary_data[j].name)
       /\ run.summary_data[j].name # "Other"

\* the basket cluster_keywords of app.py puts a keyword in
AppBasketOf(categories, kw) ==
  IF AppMatching(categories, kw) = {} THEN "Other"
  ELSE categories[Min(AppMatching(categories, kw))].name

\* C7 as claimed: every declared category has a row in the summary.
C7_DeclaredAlwaysListed ==
  run.outcome = "clustered" =>
    \A c \in 1..Len(run.categories) :
      \E r \in 1..Len(run.summary_data) : run.summary_data[r].name = run.categories[c].name

\* C7, amended: a basket, declared category or Other, has a row in the summary
\* exactly if a keyword was assigned to it, and the row counts its keywords: a
\* declared category without keywords has no row.
C7_LazyBaskets ==
  run.outcome = "clustered" =>
    /\ \A name \in Range(Names(run.categories)) \cup {"Other"} :
         (\E r \in 1..Len(run.summary_data) : run.summary_data[r].name = name)
           <=> (\E k \in 1..Len(run.keywords) : AppBasketOf(run.categories, run.keywords[k]) = name)
    /\ \A r \in 1..Len(run.summary_data) :
         /\ run.summary_data[r].count >= 1
         /\ run.summary_data[r].count =
              Cardinality({k \in 1..Len(run.keywords) :
                             AppBasketOf(run.categories, run.keywords[k]) = run.summary_data[r].name})

\* a summary with rows, and a declared category that got no keyword
C7_Witness ==
  /\ run.outcome = "clustered"
  /\ Len(run.summary_data) >= 2
  /\ \E c \in 1..Len(run.categories) :
       \A k \in 1..Len(run.keywords) :
         AppBasketOf(run.categories, run.keywords[k]) # run.categories[c].name

(***************************************************************************)
(* Properties of the runs of the app's script.                             *)
(***************************************************************************)
\* the names of the categories that the uploaded file gives no rule
FileEmptyNames ==
  IF keywords_file = <<>> \/ categories_file = <<>> THEN {}
  ELSE IF loaded_categories[categories_file[1]] = <<>> THEN {}
  ELSE {c.name : c \in {d \in Range(loaded_categories[categories_file[1]][1]) :
                          d.patterns = <<>>}}

\* C8: a run on a category file with a category without rules reports these
\* categories and does not call cluster_keywords: no keyword is in any basket.
C8_NoClusteringWithoutPatterns ==
  FileEmptyNames # {} =>
    /\ run.outcome \in {"needs_patterns", "rerun"}
    /\ Range(run.empty_categories) = FileEmptyNames
    /\ run.cluster_calls = 0
    /\ run.clusters = <<>>
    /\ run.summary_data = <<>> /\ run.csv_data = <<>> /\ run.json_data = <<>>

\* the run has read a pattern for every category without rules, and stopped
C8_Witness ==
  /\ FileEmptyNames # {}
  /\ Cardinality(FileEmptyNames) >= 2
  /\ keywords_file # <<>> /\ keywords_file[1] # <<>>
  /\ EmptyCategories(run.categories) = <<>>
  /\ run.outcome = "needs_patterns"

\* the names a rule-based basket can have
CliBasketNames == {cli_categories[c].name : c \in 1..Len(cli_categories)} \cup {"Other"}

\* C11 as claimed: every section of the readable file written by a semantic run
\* holds at least one keyword and is named by a declared category or "Other",
\* never by the fallback "Cluster <id>".
C11_NoEmptyOrUnnamedBasket ==
  (cli_pc = "done" /\ mode = "semantic") =>
    \A s \in 1..Len(readable) :
      /\ readable[s].keywords # <<>>
      /\ readable[s].name \in CliBasketNames

\* C10 as claimed: once the button is pressed with a pattern entered for every
\* category without rules, a following run calls cluster_keywords.
C10_EventuallyClusters ==
  (app_pc = "rerun" /\ FileEmptyNames # {} /\ EmptyCategories(run.categories) = <<>>)
    ~> (run.cluster_calls = 1)
====
